---- MODULE Spec2Model ----
(***************************************************************************)
(* JWT authentication service: signup, login and /me over a key-value      *)
(* store keyed by email (app.py), the token and password helpers           *)
(* (utils.py) and the response schemas (schemas.py).                       *)
(*                                                                         *)
(* Time is counted in whole seconds.  Python values whose type decides     *)
(* the behaviour (the subject and expires_delta arguments of the token     *)
(* constructors) are tagged records [py |-> <type>, v |-> <value>].        *)
(***************************************************************************)
EXTENDS Integers, FiniteSets, Sequences, TLC

VARIABLES db, now, ticks, rand, sign, held, made, resp

vars == <<db, now, ticks, rand, sign, held, made, resp>>

(* ------------------------------ bounds --------------------------------- *)

MaxTicks == 2

MaxSignups == 2

(* ------------------------------ inputs --------------------------------- *)

Emails == {"a@x.com", "b@x.com"}

Passwords == {"secret1", "wrong"}

SignupPasswords == {"secret1"}

Workers == {"w1", "w2"}

TickSteps == {1, 1799}

PyNone == [py |-> "None", v |-> 0]

PyStr(s) == [py |-> "str", v |-> s]

PyInt(digits) == [py |-> "int", v |-> digits]

PyTimedelta(seconds) == [py |-> "timedelta", v |-> seconds]

Subjects == {PyStr(e) : e \in Emails} \cup {PyInt("7")}

Deltas == {PyNone, [py |-> "int", v |-> 60]} \cup {PyTimedelta(d) : d \in {-1, 0, 1}}

Secrets == {"ashish", "other"}

(* ------------------------------ utils.py ------------------------------- *)

ACCESS_TOKEN_EXPIRE_MINUTES == 30

REFRESH_TOKEN_EXPIRE_MINUTES == 60 * 24 * 7

JWT_SECRET_KEY == "ashish"

JWT_REFRESH_SECRET_KEY == "ashish"

\* password_context.hash: a salted one-way blob; the salt is fresh per call.
get_hashed_password(password, salt) == [salt |-> salt, pw |-> password]

\* password_context.verify: recomputes with the blob's own salt.
verify_password(password, hashed_pass) == hashed_pass.pw = password

\* timedelta(minutes=m), in seconds.
timedelta_minutes(m) == PyTimedelta(m * 60)

\* datetime + x: defined for a timedelta only, TypeError for anything else.
datetime_add(dt, x) ==
    IF x.py = "timedelta" THEN [ok |-> TRUE, v |-> dt + x.v]
    ELSE [ok |-> FALSE, error |-> "TypeError"]

\* str(subject): a str is returned as it is, an int as its decimal digits.
Str(subject) == subject.v

\* jwt.encode(to_encode, key, ALGORITHM): the claims, signed with key.
jwt_encode(to_encode, key) == [sub |-> to_encode.sub, exp |-> to_encode.exp, key |-> key]

create_access_token_far(subject, expires_delta, utcnow) ==
    LET d == IF expires_delta.py = "None" \/ (expires_delta.py = "timedelta" /\ expires_delta.v <= 0)
             THEN timedelta_minutes(ACCESS_TOKEN_EXPIRE_MINUTES) ELSE expires_delta
        e == datetime_add(utcnow, d)
    IN  IF ~e.ok THEN e
        ELSE [ok |-> TRUE, token |-> jwt_encode([exp |-> e.v, sub |-> Str(subject)], JWT_SECRET_KEY)]

create_access_token_nosub(subject, expires_delta, utcnow) ==
    LET d == IF expires_delta.py # "None" THEN expires_delta
             ELSE timedelta_minutes(ACCESS_TOKEN_EXPIRE_MINUTES)
        e == datetime_add(utcnow, d)
    IN  IF ~e.ok THEN e
        ELSE [ok |-> TRUE, token |-> jwt_encode([exp |-> e.v, sub |-> "a@x.com"], JWT_SECRET_KEY)]

create_access_token(subject, expires_delta, utcnow) ==
    LET d == IF expires_delta.py # "None" THEN expires_delta
             ELSE timedelta_minutes(ACCESS_TOKEN_EXPIRE_MINUTES)
        e == datetime_add(utcnow, d)
    IN  IF ~e.ok THEN e
        ELSE [ok |-> TRUE, token |-> jwt_encode([exp |-> e.v, sub |-> Str(subject)], JWT_SECRET_KEY)]

create_refresh_token(subject, expires_delta, utcnow) ==
    LET d == IF expires_delta.py # "None" THEN expires_delta
             ELSE timedelta_minutes(REFRESH_TOKEN_EXPIRE_MINUTES)
        e == datetime_add(utcnow, d)
    IN  IF ~e.ok THEN e
        ELSE [ok |-> TRUE, token |-> jwt_encode([exp |-> e.v, sub |-> Str(subject)], JWT_REFRESH_SECRET_KEY)]

(* ------------------------------ token codec ---------------------------- *)

\* A bearer string that is not three dot-joined segments.
Garbage == [raw |-> "not.a.jwt"]

IsJwt(t) == DOMAIN t = {"sub", "exp", "key"}

\* decode(token, secret): signature first, then expiry (current time >= exp).
jwt_decode(token, secret, utcnow) ==
    IF ~IsJwt(token) THEN [ok |-> FALSE, error |-> "Malformed"]
    ELSE IF token.key # secret THEN [ok |-> FALSE, error |-> "InvalidSignature"]
    ELSE IF utcnow >= token.exp THEN [ok |-> FALSE, error |-> "Expired"]
    ELSE [ok |-> TRUE, sub |-> token.sub, exp |-> token.exp]

(* ------------------------------ schemas.py ----------------------------- *)

\* SystemUser(**user): id, email and password.
SystemUser(user) == [id |-> user.id, email |-> user.email, password |-> user.password]

UserOut_all(value) == value

\* response_model=UserOut: the fields id and email of the returned value.
UserOut(value) == [id |-> value.id, email |-> value.email]

TokenSchema(value) == [access_token |-> value.access_token, refresh_token |-> value.refresh_token]

(* ------------------------------ app.py --------------------------------- *)

HTTP_400_BAD_REQUEST == 400

HTTP_401_UNAUTHORIZED == 401

HTTP_404_NOT_FOUND == 404

NoBody == [none |-> TRUE]

HTTPException(status_code, detail) ==
    [status |-> status_code, detail |-> detail, body |-> NoBody]

Ok(body) == [status |-> 200, detail |-> "", body |-> body]

\* db.get(key, None) is not None
Has(store, key) == key \in DOMAIN store

Put(store, key, value) == [k \in DOMAIN store \cup {key} |-> IF k = key THEN value ELSE store[k]]

Del(store, key) == [k \in DOMAIN store \ {key} |-> store[k]]

create_user_get_unchecked(store, data) == [raised |-> FALSE]

\* create_user up to the store read: the duplicate check.
create_user_get(store, data) ==
    IF Has(store, data.email)
    THEN [raised |-> TRUE,
          exc |-> HTTPException(HTTP_400_BAD_REQUEST, "User with this email already exists")]
    ELSE [raised |-> FALSE]

\* create_user after the check: the record that is written and returned.
create_user_record(data, salt, uuid) ==
    [email |-> data.email, password |-> get_hashed_password(data.password, salt), id |-> uuid]

login_tells(store, form_data, utcnow) ==
    IF ~Has(store, form_data.username)
    THEN HTTPException(HTTP_400_BAD_REQUEST, "Incorrect email")
    ELSE LET user == store[form_data.username] IN
         IF ~verify_password(form_data.password, user.password)
         THEN HTTPException(HTTP_400_BAD_REQUEST, "Incorrect email or password")
         ELSE Ok(TokenSchema([access_token |-> create_access_token(PyStr(user.email), PyNone, utcnow).token,
                              refresh_token |-> create_refresh_token(PyStr(user.email), PyNone, utcnow).token]))

login_nopw(store, form_data, utcnow) ==
    IF ~Has(store, form_data.username)
    THEN HTTPException(HTTP_400_BAD_REQUEST, "Incorrect email or password")
    ELSE LET user == store[form_data.username] IN
         Ok(TokenSchema([access_token |-> create_access_token(PyStr(user.email), PyNone, utcnow).token,
                         refresh_token |-> create_refresh_token(PyStr(user.email), PyNone, utcnow).token]))

login(store, form_data, utcnow) ==
    IF ~Has(store, form_data.username)
    THEN HTTPException(HTTP_400_BAD_REQUEST, "Incorrect email or password")
    ELSE LET user == store[form_data.username] IN
         IF ~verify_password(form_data.password, user.password)
         THEN HTTPException(HTTP_400_BAD_REQUEST, "Incorrect email or password")
         ELSE Ok(TokenSchema([access_token |-> create_access_token(PyStr(user.email), PyNone, utcnow).token,
                              refresh_token |-> create_refresh_token(PyStr(user.email), PyNone, utcnow).token]))

get_me_not_found_as_unauthenticated == HTTPException(HTTP_401_UNAUTHORIZED, "Unauthenticated")

\* get_me, Raises: "If the user is not found in the database (status code
\* 404)".  The source gives the status only; the detail text is a stand-in.
get_me_not_found == HTTPException(HTTP_404_NOT_FOUND, "user not found")

\* The dependency of /me: decode with the access secret, then look the
\* subject up; every codec failure is the one unauthenticated error.
get_current_user(token, store, utcnow) ==
    LET payload == jwt_decode(token, JWT_SECRET_KEY, utcnow) IN
    IF ~payload.ok
    THEN [raised |-> TRUE, exc |-> HTTPException(HTTP_401_UNAUTHORIZED, "Unauthenticated")]
    ELSE IF ~Has(store, payload.sub)
    THEN [raised |-> TRUE, exc |-> get_me_not_found]
    ELSE [raised |-> FALSE, user |-> SystemUser(store[payload.sub])]

get_me(token, store, utcnow) ==
    LET user == get_current_user(token, store, utcnow) IN
    IF user.raised THEN user.exc ELSE Ok(UserOut(user.user))

(* ------------------------------ state ---------------------------------- *)

Idle == [pc |-> "idle"]

NoPair == [got |-> FALSE]

NoMade == [called |-> FALSE]

NoResp == [op |-> "none"]

EmptyStore == [k \in {} |-> 0]

Init ==
    /\ db = EmptyStore
    /\ now = 0
    /\ ticks = 0
    /\ rand = 0
    /\ sign = [w \in Workers |-> Idle]
    /\ held = NoPair
    /\ made = NoMade
    /\ resp = NoResp

\* POST /signup, first half: db.get and the duplicate check.
SignupGet(w, data) ==
    /\ sign[w].pc = "idle"
    /\ LET r == create_user_get(db, data) IN
       IF r.raised
       THEN /\ resp' = [op |-> "signup", req |-> data, res |-> r.exc]
            /\ UNCHANGED sign
       ELSE /\ sign' = [sign EXCEPT ![w] = [pc |-> "checked", data |-> data]]
            /\ UNCHANGED resp
    /\ UNCHANGED <<db, now, ticks, rand, held, made>>

\* POST /signup, second half: hash, uuid4, db[email] = user, return user.
SignupSet(w) ==
    /\ sign[w].pc = "checked"
    /\ rand + 2 <= 2 * MaxSignups
    /\ LET data == sign[w].data
           user == create_user_record(data, rand + 1, rand + 2)
       IN  /\ db' = Put(db, data.email, user)
           /\ resp' = [op |-> "signup", req |-> data, res |-> Ok(UserOut(user))]
    /\ rand' = rand + 2
    /\ sign' = [sign EXCEPT ![w] = Idle]
    /\ UNCHANGED <<now, ticks, held, made>>

\* POST /login
Login(form_data) ==
    /\ LET r == login(db, form_data, now) IN
       /\ resp' = [op |-> "login", req |-> form_data, res |-> r]
       /\ held' = IF r.status = 200
                  THEN [got |-> TRUE, at |-> now, access |-> r.body.access_token,
                        refresh |-> r.body.refresh_token]
                  ELSE held
    /\ UNCHANGED <<db, now, ticks, rand, sign, made>>

Forged(e) == [sub |-> e, exp |-> 1000000, key |-> "other"]

Bearers ==
    {Garbage} \cup {Forged(e) : e \in Emails}
      \cup (IF held.got THEN {held.access, held.refresh} ELSE {})
      \cup (IF made.called /\ made.res.ok THEN {made.res.token} ELSE {})

\* GET /me
Me(token) ==
    /\ resp' = [op |-> "me", req |-> token, res |-> get_me(token, db, now)]
    /\ UNCHANGED <<db, now, ticks, rand, sign, held, made>>

\* A direct call of create_access_token / create_refresh_token.
Create(kind, subject, expires_delta) ==
    /\ made' = [called |-> TRUE, kind |-> kind, subject |-> subject,
                delta |-> expires_delta, at |-> now,
                res |-> IF kind = "access"
                        THEN create_access_token(subject, expires_delta, now)
                        ELSE create_refresh_token(subject, expires_delta, now)]
    /\ resp' = [op |-> "create"]
    /\ UNCHANGED <<db, now, ticks, rand, sign, held>>

\* The account is deleted from the store from outside the service.
DeleteUser(email) ==
    /\ Has(db, email)
    /\ db' = Del(db, email)
    /\ resp' = [op |-> "delete"]
    /\ UNCHANGED <<now, ticks, rand, sign, held, made>>

\* The clock advances.
Tick(d) ==
    /\ ticks < MaxTicks
    /\ now' = now + d
    /\ ticks' = ticks + 1
    /\ UNCHANGED <<db, rand, sign, held, made, resp>>

\* A direct call of the codec's decode on the token just created.
Decode(secret) ==
    /\ made.called
    /\ made.res.ok
    /\ resp' = [op |-> "decode", req |-> secret, res |-> jwt_decode(made.res.token, secret, now)]
    /\ UNCHANGED <<db, now, ticks, rand, sign, held, made>>

Next ==
    \/ \E w \in Workers, e \in Emails, p \in SignupPasswords : SignupGet(w, [email |-> e, password |-> p])
    \/ \E w \in Workers : SignupSet(w)
    \/ \E e \in Emails, p \in Passwords : Login([username |-> e, password |-> p])
    \/ \E t \in Bearers : Me(t)
    \/ \E e \in Emails : DeleteUser(e)
    \/ \E d \in TickSteps : Tick(d)

Spec == Init /\ [][Next]_vars

\* The token helpers exercised directly, in the state that
\* signup("a@x.com", "secret1") leaves behind.
InitCodec ==
    /\ db = Put(EmptyStore, "a@x.com",
                create_user_record([email |-> "a@x.com", password |-> "secret1"], 1, 2))
    /\ now = 0
    /\ ticks = 0
    /\ rand = 2
    /\ sign = [w \in Workers |-> Idle]
    /\ held = NoPair
    /\ made = NoMade
    /\ resp = NoResp

NextCodec ==
    \/ \E k \in {"access", "refresh"}, s \in Subjects, d \in Deltas : Create(k, s, d)
    \/ \E k \in Secrets : Decode(k)
    \/ \E t \in Bearers : Me(t)
    \/ \E d \in TickSteps : Tick(d)

SpecCodec == InitCodec /\ [][NextCodec]_vars

(* ------------------------------ claims --------------------------------- *)

SecretOf(kind) == IF kind = "access" THEN JWT_SECRET_KEY ELSE JWT_REFRESH_SECRET_KEY

\* The lifetime asked of a direct call, in seconds: the argument, or the
\* documented default of 30 minutes (access) and 7 days (refresh).
AskedTtl == IF made.delta.py # "None" THEN made.delta.v
            ELSE IF made.kind = "access" THEN 30 * 60 ELSE 7 * 24 * 60 * 60

Forms == [username : Emails, password : Passwords]

NoRecord(f) == ~Has(db, f.username)

WrongPassword(f) == Has(db, f.username) /\ db[f.username].password.pw # f.password

\* C1: before it expires, the refresh token of a login presented as the
\* bearer token of /me gets the unauthenticated error and no user record,
\* and the access token does not decode under the refresh secret.
C1_WrongPurposeRejected ==
    (held.got /\ now < held.access.exp) =>
        /\ get_me(held.refresh, db, now).status = 401
        /\ get_me(held.refresh, db, now).body = NoBody
        /\ ~jwt_decode(held.access, JWT_REFRESH_SECRET_KEY, now).ok

\* C2: login answers with a token pair exactly when a record exists for the
\* username and the password is the one its hash was made from; both tokens
\* then carry the record's email as subject, and otherwise there is no token.
C2_LoginIffCredentials ==
    \A f \in Forms :
        LET r == login(db, f, now)
            valid == ~NoRecord(f) /\ ~WrongPassword(f)
        IN  /\ (r.status = 200) <=> valid
            /\ valid => /\ DOMAIN r.body = {"access_token", "refresh_token"}
                        /\ r.body.access_token.sub = db[f.username].email
                        /\ r.body.refresh_token.sub = db[f.username].email
            /\ ~valid => r.body = NoBody

C2_Witness ==
    /\ resp.op = "login"
    /\ resp.res.status = 200
    /\ resp.res = login(db, resp.req, now)

\* C3: a login that fails for want of a record and a login that fails on the
\* password get the same status and the same message.
C3_LoginFailuresAlike ==
    \A f1, f2 \in Forms :
        (NoRecord(f1) /\ WrongPassword(f2)) =>
            /\ login(db, f1, now).status # 200
            /\ login(db, f1, now) = login(db, f2, now)

C3_Witness ==
    /\ resp.op = "login"
    /\ resp.res.status # 200
    /\ WrongPassword(resp.req)
    /\ \E f \in Forms : NoRecord(f)

\* C4: a stored record never changes while it is stored, and a signup
\* succeeds only for an email that has no record yet.
C4_RecordImmutable ==
    [][/\ \A e \in DOMAIN db \cap DOMAIN db' : db'[e] = db[e]
       /\ (resp' # resp /\ resp'.op = "signup" /\ resp'.res.status = 200)
             => ~Has(db, resp'.req.email)]_vars

\* C5 as written: signup for a stored email is refused with status 409, a
\* status other than the one of a failed login.
C5_Duplicate409 ==
    \A e \in DOMAIN db, p \in SignupPasswords :
        LET r == create_user_get(db, [email |-> e, password |-> p]) IN
        /\ r.raised
        /\ r.exc.status = 409

\* C5 amended: signup for a stored email is refused with status 400 and the
\* message "User with this email already exists" (the status of a failed
\* login, told apart by the message only); signup for an email without a
\* record passes the check, and its answer is the email and a new id.
C5_Duplicate400 ==
    /\ \A e \in Emails, p \in SignupPasswords :
          LET r == create_user_get(db, [email |-> e, password |-> p]) IN
          IF Has(db, e)
          THEN /\ r.raised
               /\ r.exc.status = 400
               /\ r.exc.detail = "User with this email already exists"
               /\ r.exc.body = NoBody
               /\ \A f \in Forms : login(db, f, now).status # 200 =>
                      /\ login(db, f, now).status = r.exc.status
                      /\ login(db, f, now).detail # r.exc.detail
          ELSE ~r.raised
    /\ (resp.op = "signup" /\ resp.res.status = 200) =>
          /\ resp.res.body.email = resp.req.email
          /\ resp.res.body.id \in 1..rand
          /\ \A e \in DOMAIN db : db[e].id = resp.res.body.id => e = resp.req.email

C5_Witness ==
    /\ resp.op = "signup"
    /\ resp.res.status = 400
    /\ Has(db, resp.req.email)

\* The access token of the last login is good but its subject has no record.
SubjectDeleted ==
    /\ held.got
    /\ jwt_decode(held.access, JWT_SECRET_KEY, now).ok
    /\ ~Has(db, held.access.sub)

C7_ExpiryEnforced ==
    (made.called /\ made.res.ok) =>
        LET t == made.res.token
            exp == made.at + AskedTtl
        IN  /\ now >= exp =>
                /\ jwt_decode(t, SecretOf(made.kind), now) = [ok |-> FALSE, error |-> "Expired"]
                /\ get_me(t, db, now).status = 401
            /\ jwt_decode(t, SecretOf(made.kind), now).ok => now < exp
            /\ get_me(t, db, now).status = 200 => now < exp

C7_Witness ==
    /\ made.called
    /\ made.res.ok
    /\ made.at < made.res.token.exp
    /\ now >= made.res.token.exp
    /\ resp.op = "me"
    /\ resp.req = made.res.token
    /\ resp.res.status = 401

C7_WitnessNoLifetime ==
    /\ made.called
    /\ made.res.ok
    /\ made.delta = PyTimedelta(0)
    /\ resp.op = "me"
    /\ resp.req = made.res.token
    /\ resp.res.status = 401

C9_NoHashInResponse ==
    (resp.op \in {"signup", "me"} /\ resp.res.status = 200) =>
        /\ DOMAIN resp.res.body = {"id", "email"}
        /\ resp.res.body.email = (IF resp.op = "signup" THEN resp.req.email ELSE resp.req.sub)
        /\ resp.res.body.id \in 1..rand

C9_Witness ==
    /\ resp.op = "me"
    /\ resp.res.status = 200
    /\ ~get_current_user(resp.req, db, now).raised
    /\ "password" \in DOMAIN get_current_user(resp.req, db, now).user

\* C10: with expires_delta an integer number of seconds the token expires
\* that many seconds from now; without it, 30 minutes (access) or 7 days
\* (refresh) from now.
C10_Lifetimes ==
    (made.called /\ made.delta.py \in {"int", "None"}) =>
        /\ made.res.ok
        /\ made.res.token.exp = made.at + AskedTtl

====
